---- MODULE Spec2Model ----
(***************************************************************************)
(* polygon-data: the concurrent, cursor-paginated fetch pipeline.          *)
(*                                                                         *)
(* Service::fetch_data runs one pipeline per configured ticker through     *)
(* for_each_concurrent(CONCURRENCY_LIMIT, ..).  A pipeline builds an       *)
(* AggregateRequest, opens the ticker's CSV file in append mode and drains *)
(* the stream of get_aggregates (stream::unfold over Client::get_aggregate)*)
(* into it, page by page.                                                  *)
(*                                                                         *)
(* All pipelines are futures of ONE task, so the code between two awaits   *)
(* runs atomically.  The awaits are create_dir_all, the HTTP round trip of *)
(* get_aggregate, and the sleep after a page: one action per completion.   *)
(* The remote server and the file system are the environment: each reply   *)
(* and each file operation's outcome is drawn with \E where it is consumed.*)
(***************************************************************************)
EXTENDS Integers, Sequences, FiniteSets, TLC

(* ------------------------------ bounds --------------------------------- *)

\* Longest cursor chain the server serves for one ticker.
MaxPages == 3
\* Records of a non-empty page.
PageSize == 2
\* Tickers beyond CONCURRENCY_LIMIT in the wide scenarios.
MaxQueued == 1
\* Extra polls a free-standing consumer makes of a stream (StreamSpec only).
MaxRepolls == 2

(* ------------------------- program constants --------------------------- *)

CONCURRENCY_LIMIT == 10
DEFAULT_CHUNK_SIZE == 5000

(* ------------------------------ Option --------------------------------- *)

\* Option<T> is a sequence of length at most one.
None == <<>>
Some(v) == <<v>>
is_some(o) == Len(o) = 1
is_none(o) == Len(o) = 0
unwrap(o) == o[1]

Range(s) == {s[k] : k \in 1..Len(s)}

RECURSIVE Concat(_)
Concat(ss) == IF ss = <<>> THEN <<>> ELSE Head(ss) \o Concat(Tail(ss))

IsPrefix(s, t) == Len(s) <= Len(t) /\ SubSeq(t, 1, Len(s)) = s

(* ------------------------------ types.rs ------------------------------- *)

\* Timespan, in its strum/serde lowercase rendering.
Timespan == {"second", "minute", "hour", "day", "week", "month", "quarter", "year"}
Timespan_default == "minute"

\* #[derive(Builder)] of AggregateRequest: every field starts unset; a setter
\* makes it Some(value).
AggregateRequestBuilder_default ==
    [ticker |-> None, timespan |-> None, from |-> None, to |-> None,
     next_url |-> None, limit |-> None]

\* The generated build(): a field without #[builder(default)] that was never
\* set is an UninitializedField error; nothing else is checked.
build(b) ==
    IF is_none(b.ticker) \/ is_none(b.from) \/ is_none(b.to) \/ is_none(b.limit)
    THEN [ok |-> FALSE, err |-> "UninitializedField"]
    ELSE [ok |-> TRUE,
          request |-> [ticker |-> unwrap(b.ticker),
                       timespan |-> IF is_some(b.timespan) THEN unwrap(b.timespan)
                                    ELSE Timespan_default,
                       from |-> unwrap(b.from), to |-> unwrap(b.to),
                       next_url |-> IF is_some(b.next_url) THEN b.next_url ELSE None,
                       limit |-> unwrap(b.limit)]]

\* The k-th record of page p: the timestamp identifies it; vwap stands for the
\* optional columns (present on odd records, absent on even ones).
AggregateRecord(p, k) ==
    [timestamp |-> p * (PageSize + 1) + k,
     vwap |-> IF k % 2 = 1 THEN Some(p) ELSE None]

\* serde/csv serialisation of one record with flexible(true): the optional
\* column is left out of the row when absent.
serialize(record) == <<record.timestamp>> \o record.vwap

(* ------------------------------ client.rs ------------------------------ *)

BASE_URL == "https://api.polygon.io"

\* Url::from_str of the continuation: the server's next_url is an opaque string
\* which may or may not parse as a URL.
\* A cursor is [ticker, page, valid]: the page it points at, and whether it parses.
Cursor(ticker, page, valid) == [ticker |-> ticker, page |-> page, valid |-> valid]

\* DateTime::timestamp_millis of a time in seconds: seconds * 1000, kept as the
\* pair of its factors (the product of a date exceeds TLC's integers).
timestamp_millis(t) == <<t, 1000>>

\* Client::get_aggregate up to the send: the call target. The continuation is
\* used verbatim when present, else the URL is synthesised from the request.
get_aggregate_url(request) ==
    IF is_some(request.next_url)
    THEN IF unwrap(request.next_url).valid
         THEN [ok |-> TRUE, url |-> [cursor |-> request.next_url]]
         ELSE [ok |-> FALSE, err |-> "InvalidUrl"]
    ELSE [ok |-> TRUE,
          url |-> [base |-> BASE_URL, ticker |-> request.ticker,
                   timespan |-> request.timespan,
                   from |-> timestamp_millis(request.from),
                   to |-> timestamp_millis(request.to),
                   limit |-> request.limit]]

\* The errors of the round trip: send(), error_for_status(), json().
FetchErrors == {"SendRequest", "UnexpectedStatus", "Deserialization"}

(* ------------------------------ service.rs ----------------------------- *)

\* Rust's integer division truncates toward zero.
TruncDiv(a, b) == IF a >= 0 THEN a \div b ELSE -((-a) \div b)

\* chrono::Duration accessors, on a duration in seconds.
num_seconds(d) == d
num_minutes(d) == TruncDiv(d, 60)
num_hours(d) == TruncDiv(d, 60 * 60)
num_days(d) == TruncDiv(d, 24 * 60 * 60)
num_weeks(d) == TruncDiv(d, 7 * 24 * 60 * 60)

\* num_intervals with months of 30 and quarters of 91 days in place of the
\* estimates by weeks.
num_intervals_by_days(timespan, duration) ==
    CASE timespan = "second" -> num_seconds(duration)
      [] timespan = "minute" -> num_minutes(duration)
      [] timespan = "hour" -> num_hours(duration)
      [] timespan = "day" -> num_days(duration)
      [] timespan = "week" -> num_weeks(duration)
      [] timespan = "month" -> TruncDiv(num_days(duration), 30)
      [] timespan = "quarter" -> TruncDiv(num_days(duration), 91)
      [] timespan = "year" -> TruncDiv(num_days(duration), 365)

num_intervals(timespan, duration) ==
    CASE timespan = "second" -> num_seconds(duration)
      [] timespan = "minute" -> num_minutes(duration)
      [] timespan = "hour" -> num_hours(duration)
      [] timespan = "day" -> num_days(duration)
      [] timespan = "week" -> num_weeks(duration)
      [] timespan = "month" -> TruncDiv(num_weeks(duration), 4)
      [] timespan = "quarter" -> TruncDiv(num_weeks(duration), 12)
      [] timespan = "year" -> TruncDiv(num_days(duration), 365)

\* num_chunks for limit > 0 (the division panics when limit = 0).
num_chunks(timespan, from, to, limit) ==
    TruncDiv(num_intervals(timespan, to - from), limit)

\* tickers.len() as u64 * num_chunks as u64. A negative i64 n casts to
\* 2^64 + n, so for the magnitudes of this model the u64 product overflows
\* exactly when n < 0 and there are at least two tickers. The product is kept
\* as the signed reading of its 64 bits (len * n).
progress_len_overflows(len, n) == n < 0 /\ len >= 2
progress_len(len, n) == len * n

\* output_dir.join(format!("{ticker}/{timespan}.csv")), as path components.
file_path(output_dir, ticker, timespan) == <<output_dir, ticker, timespan \o ".csv">>
parent(path) == SubSeq(path, 1, Len(path) - 1)

\* create_or_open_file with truncate(true) in place of append(true): the file
\* would be emptied each time it is opened.
create_or_open_file_truncating(F, path) ==
    [F EXCEPT ![path] = [exists |-> TRUE, rows |-> <<>>]]

\* create_or_open_file without create(true), on a file taken to exist: an
\* absent file would stay absent.
create_or_open_file_existing(F, path) == F

\* OpenOptions::new().create(true).append(true).open(path) on the files F:
\* the file exists afterwards and keeps the rows it had.
create_or_open_file(F, path) == [F EXCEPT ![path].exists = TRUE]

(* ----------------------------- scenarios ------------------------------- *)

\* Seconds of a day; from/to are seconds since the epoch.
Day == 24 * 60 * 60

Config(tickers, timespan, from, to, limit) ==
    [tickers |-> tickers, timespan |-> timespan, output_dir |-> "out",
     from |-> from, to |-> to, limit |-> limit]

\* The environment of a run: how long the server's cursor chains may get,
\* whether the output volume is writable at all ("readonly": every
\* create_dir_all fails; "any": each file operation succeeds or fails), and
\* whether the tickers' files exist before the run.
Env(chain, disk, pre) == [chain |-> chain, disk |-> disk, pre |-> pre]

\* Pagination: one ticker with chains of up to MaxPages pages, its file absent
\* or present before the run; no ticker, two tickers, a ticker listed twice
\* and an empty name with chains one page shorter.
PagingScenarios ==
    {[config |-> Config(<<"A">>, "minute", 0, 2 * Day, DEFAULT_CHUNK_SIZE),
      env |-> Env(MaxPages, "any", pre)] : pre \in BOOLEAN}
    \cup
    {[config |-> Config(t, "minute", 0, 2 * Day, DEFAULT_CHUNK_SIZE),
      env |-> Env(MaxPages - 1, "any", FALSE)] :
        t \in {<<>>, <<"A", "B">>, <<"A", "A">>, <<"", "A">>}}

\* Request parameters: every timespan, ordinary, empty and inverted ranges,
\* limits 0, 1 and the CLI's default.
ParameterScenarios ==
    {[config |-> Config(t, ts, r[1] * Day, r[2] * Day, l),
      env |-> Env(1, "any", FALSE)] :
        t \in {<<"A">>, <<"A", "B">>},
        ts \in Timespan,
        r \in {<<0, 2>>, <<0, 0>>, <<5, 0>>, <<0, 400>>},
        l \in {0, 1, DEFAULT_CHUNK_SIZE}}

\* More tickers than CONCURRENCY_LIMIT, on a volume that cannot be written.
WideTickers(n) == [k \in 1..n |-> IF k % 2 = 1 THEN "A" ELSE "B"]
WideScenarios ==
    {[config |-> Config(WideTickers(CONCURRENCY_LIMIT + q), "minute", 0, 2 * Day,
                        DEFAULT_CHUNK_SIZE),
      env |-> Env(1, "readonly", FALSE)] : q \in 1..MaxQueued}

Scenarios == PagingScenarios \cup ParameterScenarios \cup WideScenarios

(* ------------------------------- state --------------------------------- *)

VARIABLES
    config,     \* Service.config
    env,        \* the environment of the run
    run,        \* fetch_data: "init", "running", "done", "panicked"
    pb_len,     \* ProgressBar length
    pb_pos,     \* ProgressBar position
    admitted,   \* tickers taken from stream::iter(&config.tickers)
    pc,         \* per pipeline: "queued", "create_dir_all", "get_aggregate", "sleep", "done"
    request,    \* per pipeline: the AggregateRequest built for it, once built
    stream,     \* per pipeline: the unfold state (request, next_url, final_page), once created
    calls,      \* per pipeline: the requests passed to Client::get_aggregate
    replies,    \* per pipeline: the server's replies received
    yielded,    \* per pipeline: the items stream.next() returned
    wrote,      \* per pipeline: the rows it appended to its file
    result,     \* per pipeline: the outcome of the pipeline's future
    files,      \* path -> [exists, rows]
    dirs,       \* directories created
    repolls     \* polls made by a free-standing consumer (StreamSpec)

vars == <<config, env, run, pb_len, pb_pos, admitted, pc, request, stream, calls, replies,
          yielded, wrote, result, files, dirs, repolls>>

Pipelines == 1..Len(config.tickers)
Ticker(i) == config.tickers[i]
Path(i) == file_path(config.output_dir, Ticker(i), config.timespan)

\* Pipelines whose future for_each_concurrent holds.
ActiveStates == {"create_dir_all", "get_aggregate", "sleep"}
Active == {i \in Pipelines : pc[i] \in ActiveStates}

\* A row that a file holds from an earlier run.
OldRow == <<0>>

Init ==
    \E s \in Scenarios :
        /\ config = s.config
        /\ env = s.env
        /\ run = "init"
        /\ pb_len = 0
        /\ pb_pos = 0
        /\ admitted = 0
        /\ pc = [i \in 1..Len(s.config.tickers) |-> "queued"]
        /\ request = [i \in 1..Len(s.config.tickers) |-> None]
        /\ stream = [i \in 1..Len(s.config.tickers) |-> None]
        /\ calls = [i \in 1..Len(s.config.tickers) |-> <<>>]
        /\ replies = [i \in 1..Len(s.config.tickers) |-> <<>>]
        /\ yielded = [i \in 1..Len(s.config.tickers) |-> <<>>]
        /\ wrote = [i \in 1..Len(s.config.tickers) |-> <<>>]
        /\ result = [i \in 1..Len(s.config.tickers) |-> "none"]
        /\ files = [p \in {file_path(s.config.output_dir, t, s.config.timespan) :
                             t \in Range(s.config.tickers)} |->
                        IF s.env.pre THEN [exists |-> TRUE, rows |-> <<OldRow>>]
                        ELSE [exists |-> FALSE, rows |-> <<>>]]
        /\ dirs = IF s.env.pre
                  THEN {parent(file_path(s.config.output_dir, t, s.config.timespan)) :
                          t \in Range(s.config.tickers)}
                  ELSE {}
        /\ repolls = 0

(* ------------------------ get_aggregates (stream) ---------------------- *)

\* The state of stream::unfold: it holds the closure's value between polls
\* ("Value"), the closure's future while a fetch is in flight ("Future"), and
\* nothing once the closure returned None ("Empty").
Unfold(state, req, next_url, final_page) ==
    [state |-> state, request |-> req, next_url |-> next_url, final_page |-> final_page]

\* Items of the stream as the consumer sees them.
ItemOk(records) == [kind |-> "Ok", records |-> records, err |-> ""]
ItemErr(e) == [kind |-> "Err", records |-> <<>>, err |-> e]
ItemEnd == [kind |-> "End", records |-> <<>>, err |-> ""]
ItemPanic == [kind |-> "Panic", records |-> <<>>, err |-> ""]

\* closure_begin of a stream that moves the range along with the cursor: the
\* request of a later page would differ from the first in more than its cursor.
closure_begin_advancing_from(st) ==
    IF st.final_page
    THEN [end |-> TRUE, request |-> st.request]
    ELSE [end |-> FALSE,
          request |-> IF is_some(st.next_url)
                      THEN [st.request EXCEPT !.next_url = st.next_url,
                                              !.from = st.request.from + 1]
                      ELSE st.request]

\* The closure up to the call of get_aggregate: None after the final page,
\* else the request with the cursor of the previous page swapped in.
closure_begin(st) ==
    IF st.final_page
    THEN [end |-> TRUE, request |-> st.request]
    ELSE [end |-> FALSE,
          request |-> IF is_some(st.next_url)
                      THEN [st.request EXCEPT !.next_url = st.next_url]
                      ELSE st.request]

\* closure_result with the stream fused on an error: the Err arm would mark the
\* state final, and the next poll would end the stream.
closure_result_fused(req, outcome) ==
    IF outcome.ok
    THEN IF is_some(outcome.response.next_url)
         THEN [item |-> ItemOk(outcome.response.results),
               state |-> Unfold("Value", req, outcome.response.next_url, FALSE)]
         ELSE [item |-> ItemOk(outcome.response.results),
               state |-> Unfold("Value", req, outcome.response.next_url, TRUE)]
    ELSE [item |-> ItemErr(outcome.err),
          state |-> Unfold("Value", req, None, TRUE)]

\* closure_result with the final page not marked final: the stream would go on
\* to call the fetcher after a page without continuation.
closure_result_never_final(req, outcome) ==
    IF outcome.ok
    THEN [item |-> ItemOk(outcome.response.results),
          state |-> Unfold("Value", req, outcome.response.next_url, FALSE)]
    ELSE [item |-> ItemErr(outcome.err),
          state |-> Unfold("Value", req, None, FALSE)]

\* The closure's match on get_aggregate's outcome: the item and the next state.
closure_result(req, outcome) ==
    IF outcome.ok
    THEN IF is_some(outcome.response.next_url)
         THEN [item |-> ItemOk(outcome.response.results),
               state |-> Unfold("Value", req, outcome.response.next_url, FALSE)]
         ELSE [item |-> ItemOk(outcome.response.results),
               state |-> Unfold("Value", req, outcome.response.next_url, TRUE)]
    ELSE [item |-> ItemErr(outcome.err),
          state |-> Unfold("Value", req, None, FALSE)]

(* --------------------------- the environment --------------------------- *)

\* What the server may answer to the call for page p of a ticker: a page with
\* no or PageSize records and, while the chain may go on, a continuation
\* (which may not parse as a URL), or a failure of the round trip.
Page(p, n, next_url) ==
    [ok |-> TRUE,
     response |-> [results |-> [k \in 1..n |-> AggregateRecord(p, k)],
                   next_url |-> next_url]]
Failure(e) == [ok |-> FALSE, err |-> e]

\* What comes back from send(): nothing (the transport failed), or a status
\* with a body that holds a page envelope or does not parse as one.
Statuses == {200, 399, 400, 503}
Body(envelope) == [envelope |-> envelope]
NoResponse == [sent |-> FALSE, status |-> 0, body |-> Body(None)]
Response(status, body) == [sent |-> TRUE, status |-> status, body |-> body]

\* reqwest's error_for_status: an error for 4xx and 5xx.
error_for_status(status) == status >= 400 /\ status < 600

\* get_aggregate_response reading the body before looking at the status: an
\* error status with a body that is no envelope would be a Deserialization.
get_aggregate_response_json_first(raw) ==
    IF ~raw.sent THEN Failure("SendRequest")
    ELSE IF is_none(raw.body.envelope) THEN Failure("Deserialization")
    ELSE IF error_for_status(raw.status) THEN Failure("UnexpectedStatus")
    ELSE [ok |-> TRUE, response |-> unwrap(raw.body.envelope)]

\* Client::get_aggregate from send() on: SendRequest when nothing came back,
\* UnexpectedStatus for an error status whatever the body, Deserialization
\* when the body is no envelope, else the envelope.
get_aggregate_response(raw) ==
    IF ~raw.sent THEN Failure("SendRequest")
    ELSE IF error_for_status(raw.status) THEN Failure("UnexpectedStatus")
    ELSE IF is_none(raw.body.envelope) THEN Failure("Deserialization")
    ELSE [ok |-> TRUE, response |-> unwrap(raw.body.envelope)]

\* The responses to the call for page p of a ticker: the page comes with
\* status 200; an error status comes with or without an envelope.
Responses(ticker, p) ==
    {NoResponse}
    \cup {Response(200, Body(Some(Page(p, n, nu).response))) :
            n \in {0, PageSize},
            nu \in {None} \cup (IF p < env.chain
                                THEN {Some(Cursor(ticker, p + 1, v)) : v \in BOOLEAN}
                                ELSE {})}
    \cup {Response(s, Body(None)) : s \in Statuses}
    \cup {Response(s, Body(Some(Page(p, 0, None).response))) :
            s \in {t \in Statuses : error_for_status(t)}}

\* The outcomes of the call, each with the response it was made from.
Outcomes(ticker, p) ==
    {get_aggregate_response(raw) @@ [raw |-> raw] : raw \in Responses(ticker, p)}

\* The pages among a pipeline's replies.
PagesOf(rs) == SelectSeq(rs, LAMBDA r : r.ok)

\* What writing and flushing the rows of a page may do: succeed, or fail in
\* serialize (Csv) or in flush (FileWrite) with some of the rows, not all, on
\* disk (the writer flushes its buffer when it is dropped).
WriteOutcomes(rows) ==
    {[ok |-> TRUE, err |-> "", written |-> Len(rows)]}
    \cup {[ok |-> FALSE, err |-> e, written |-> m] :
            e \in {"Csv", "FileWrite"}, m \in 0..(Len(rows) - 1)}

(* ------------------------ save_aggregates_to_disk ---------------------- *)

\* pipeline_step of a try_for_each_concurrent whose closure returns the error:
\* the first pipeline to fail drops every other future.
pipeline_step_failing_fast(i, next_pc, res) ==
    IF next_pc = "done" /\ res # "Ok"
    THEN [j \in DOMAIN pc |-> "done"]
    ELSE [pc EXCEPT ![i] = next_pc]

\* The closure of for_each_concurrent logs what save_aggregates_to_disk
\* returned and drops it (`let _result = ..`): pipeline i moves on to next_pc,
\* with result res when it ends, and no other pipeline is touched.
pipeline_step(i, next_pc, res) == [pc EXCEPT ![i] = next_pc]

\* consume_step without the `return Err(e)` of the Err arm: the loop would log
\* the error and poll the stream again.
consume_step_keeps_polling(item, w) ==
    CASE item.kind = "Err" ->
            [pc |-> "sleep", result |-> "none", written |-> 0, inc |-> 1]
      [] item.kind = "Ok" /\ item.records = <<>> ->
            [pc |-> "sleep", result |-> "none", written |-> 0, inc |-> 1]
      [] item.kind = "Ok" /\ item.records # <<>> /\ w.ok ->
            [pc |-> "sleep", result |-> "none", written |-> Len(item.records), inc |-> 1]
      [] OTHER ->
            [pc |-> "done", result |-> w.err, written |-> w.written, inc |-> 0]

\* consume_step without the flush after a page: the rows would stay in the
\* writer's buffer while the loop sleeps and asks for the next page.
consume_step_flushing_late(item, w) ==
    CASE item.kind = "Err" ->
            [pc |-> "done", result |-> item.err, written |-> 0, inc |-> 0]
      [] item.kind = "Ok" /\ item.records = <<>> ->
            [pc |-> "sleep", result |-> "none", written |-> 0, inc |-> 1]
      [] item.kind = "Ok" /\ item.records # <<>> /\ w.ok ->
            [pc |-> "sleep", result |-> "none", written |-> 0, inc |-> 1]
      [] OTHER ->
            [pc |-> "done", result |-> w.err, written |-> w.written, inc |-> 0]

\* consume_step with progress_bar.inc(1) ahead of the match: a page whose
\* fetch or write failed would be counted too.
consume_step_counting_first(item, w) ==
    CASE item.kind = "Err" ->
            [pc |-> "done", result |-> item.err, written |-> 0, inc |-> 1]
      [] item.kind = "Ok" /\ item.records = <<>> ->
            [pc |-> "sleep", result |-> "none", written |-> 0, inc |-> 1]
      [] item.kind = "Ok" /\ item.records # <<>> /\ w.ok ->
            [pc |-> "sleep", result |-> "none", written |-> Len(item.records), inc |-> 1]
      [] OTHER ->
            [pc |-> "done", result |-> w.err, written |-> w.written, inc |-> 1]

\* consume_step with the write errors logged and not returned (no `?` on
\* serialize and flush): the loop would go on to the next page.
consume_step_logging_write_errors(item, w) ==
    CASE item.kind = "Err" ->
            [pc |-> "done", result |-> item.err, written |-> 0, inc |-> 0]
      [] item.kind = "Ok" /\ item.records = <<>> ->
            [pc |-> "sleep", result |-> "none", written |-> 0, inc |-> 1]
      [] item.kind = "Ok" /\ item.records # <<>> /\ w.ok ->
            [pc |-> "sleep", result |-> "none", written |-> Len(item.records), inc |-> 1]
      [] OTHER ->
            [pc |-> "sleep", result |-> w.err, written |-> w.written, inc |-> 1]

\* consume_step of a loop that takes a page without records for the end of
\* the data and breaks.
consume_step_ending_on_empty(item, w) ==
    CASE item.kind = "Err" ->
            [pc |-> "done", result |-> item.err, written |-> 0, inc |-> 0]
      [] item.kind = "Ok" /\ item.records = <<>> ->
            [pc |-> "done", result |-> "Ok", written |-> 0, inc |-> 0]
      [] item.kind = "Ok" /\ item.records # <<>> /\ w.ok ->
            [pc |-> "sleep", result |-> "none", written |-> Len(item.records), inc |-> 1]
      [] OTHER ->
            [pc |-> "done", result |-> w.err, written |-> w.written, inc |-> 0]

\* One turn of `while let Some(result) = stream.next().await` on an item, given
\* the outcome w of writing its rows: where the pipeline goes (on to the sleep,
\* or out of the function), what it returns, how many of the page's rows reach
\* the file, and whether the progress bar is advanced.
consume_step(item, w) ==
    CASE item.kind = "Err" ->
            [pc |-> "done", result |-> item.err, written |-> 0, inc |-> 0]
      [] item.kind = "Ok" /\ item.records = <<>> ->
            [pc |-> "sleep", result |-> "none", written |-> 0, inc |-> 1]
      [] item.kind = "Ok" /\ item.records # <<>> /\ w.ok ->
            [pc |-> "sleep", result |-> "none", written |-> Len(item.records), inc |-> 1]
      [] OTHER ->
            [pc |-> "done", result |-> w.err, written |-> w.written, inc |-> 0]

Rows(records) == [k \in 1..Len(records) |-> serialize(records[k])]

\* The loop body applied to pipeline i, on the file system F.
Consume(i, item, F) ==
    \E w \in (IF item.kind = "Ok" /\ item.records # <<>>
              THEN WriteOutcomes(item.records)
              ELSE {[ok |-> TRUE, err |-> "", written |-> 0]}) :
        LET c == consume_step(item, w)
            rows == SubSeq(Rows(item.records), 1, c.written)
        IN  /\ pc' = pipeline_step(i, c.pc, c.result)
            /\ result' = [result EXCEPT ![i] = c.result]
            /\ files' = [F EXCEPT ![Path(i)].rows = @ \o rows]
            /\ wrote' = [wrote EXCEPT ![i] = @ \o rows]
            /\ pb_pos' = pb_pos + c.inc

\* stream.next() on the unfold state st of pipeline i, up to the next await:
\* the end of the stream leaves the loop with Ok(()); a continuation that is
\* no URL fails the call at once; otherwise the request is sent.
StreamNext(i, st, F) ==
    LET b == closure_begin(st) IN
    IF b.end
    THEN /\ yielded' = [yielded EXCEPT ![i] = Append(@, ItemEnd)]
         /\ stream' = [stream EXCEPT ![i] = Some(Unfold("Empty", st.request, st.next_url, st.final_page))]
         /\ pc' = pipeline_step(i, "done", "Ok")
         /\ result' = [result EXCEPT ![i] = "Ok"]
         /\ files' = F
         /\ UNCHANGED <<calls, wrote, pb_pos>>
    ELSE /\ calls' = [calls EXCEPT ![i] = Append(@, b.request)]
         /\ IF get_aggregate_url(b.request).ok
            THEN /\ stream' = [stream EXCEPT ![i] =
                                  Some(Unfold("Future", b.request, st.next_url, st.final_page))]
                 /\ pc' = pipeline_step(i, "get_aggregate", "none")
                 /\ files' = F
                 /\ UNCHANGED <<yielded, result, wrote, pb_pos>>
            ELSE LET step == closure_result(b.request, Failure(get_aggregate_url(b.request).err))
                 IN  /\ yielded' = [yielded EXCEPT ![i] = Append(@, step.item)]
                     /\ stream' = [stream EXCEPT ![i] = Some(step.state)]
                     /\ Consume(i, step.item, F)

(* ------------------------------ fetch_data ----------------------------- *)

\* has_slot of for_each_concurrent(None, ..): no ceiling.
has_slot_unbounded == TRUE

\* for_each_concurrent(CONCURRENCY_LIMIT, ..) takes the next ticker only while
\* it holds fewer than CONCURRENCY_LIMIT futures.
has_slot == Cardinality(Active) < CONCURRENCY_LIMIT

CanAdmit == run = "running" /\ admitted < Len(config.tickers) /\ has_slot

\* fetch_data up to for_each_concurrent: the progress bar's length. The
\* division of num_chunks panics for limit = 0; the u64 product panics on
\* overflow in a build with overflow checks and wraps in one without.
Start ==
    /\ run = "init"
    /\ \E overflow_checks \in BOOLEAN :
          IF config.limit = 0
          THEN run' = "panicked" /\ pb_len' = pb_len
          ELSE LET n == num_chunks(config.timespan, config.from, config.to, config.limit)
                   len == Len(config.tickers)
               IN  IF progress_len_overflows(len, n) /\ overflow_checks
                   THEN run' = "panicked" /\ pb_len' = pb_len
                   ELSE run' = "running" /\ pb_len' = progress_len(len, n)
    /\ UNCHANGED <<config, env, pb_pos, admitted, pc, request, stream, calls, replies,
                   yielded, wrote, result, files, dirs, repolls>>

\* for_each_concurrent takes the next ticker and polls its future for the
\* first time: the request is built (an error ends the future), and
\* save_aggregates_to_disk runs up to create_dir_all(parent_dir).await.
Admit ==
    /\ CanAdmit
    /\ LET i == admitted + 1
           b == [AggregateRequestBuilder_default EXCEPT
                    !.timespan = Some(config.timespan),
                    !.ticker = Some(config.tickers[i]),
                    !.from = Some(config.from),
                    !.to = Some(config.to),
                    !.limit = Some(config.limit)]
           r == build(b)
       IN  /\ admitted' = i
           /\ IF r.ok
              THEN /\ request' = [request EXCEPT ![i] = Some(r.request)]
                   /\ pc' = pipeline_step(i, "create_dir_all", "none")
                   /\ result' = result
              ELSE /\ request' = request
                   /\ pc' = pipeline_step(i, "done", "InvalidRequest")
                   /\ result' = [result EXCEPT ![i] = "InvalidRequest"]
    /\ UNCHANGED <<config, env, run, pb_len, pb_pos, stream, calls, replies, yielded,
                   wrote, files, dirs, repolls>>

\* create_dir_all returned. On success the file is opened (created if absent,
\* append mode), the writer and the stream are made, and the stream is polled
\* for the first time; a failure of either returns FileIo::CreateFile.
MkdirDone(i) ==
    /\ pc[i] = "create_dir_all"
    /\ ~CanAdmit
    /\ \E mkdir_ok \in (IF env.disk = "readonly" THEN {FALSE} ELSE BOOLEAN),
          open_ok \in BOOLEAN :
          IF ~mkdir_ok
          THEN /\ pc' = pipeline_step(i, "done", "CreateFile")
               /\ result' = [result EXCEPT ![i] = "CreateFile"]
               /\ UNCHANGED <<stream, calls, yielded, wrote, files, dirs, pb_pos>>
          ELSE /\ dirs' = dirs \cup {parent(Path(i))}
               /\ IF ~open_ok
                  THEN /\ pc' = pipeline_step(i, "done", "CreateFile")
                       /\ result' = [result EXCEPT ![i] = "CreateFile"]
                       /\ UNCHANGED <<stream, calls, yielded, wrote, files, pb_pos>>
                  ELSE StreamNext(i, Unfold("Value", unwrap(request[i]), None, FALSE),
                                  create_or_open_file(files, Path(i)))
    /\ UNCHANGED <<config, env, run, pb_len, admitted, request, replies, repolls>>

\* The round trip of get_aggregate returned: the closure turns the outcome
\* into an item and its next state, and the loop body consumes the item.
FetchDone(i) ==
    /\ pc[i] = "get_aggregate"
    /\ ~CanAdmit
    /\ \E outcome \in Outcomes(Ticker(i), Len(PagesOf(replies[i])) + 1) :
          LET step == closure_result(unwrap(stream[i]).request, outcome)
          IN  /\ replies' = [replies EXCEPT ![i] = Append(@, outcome)]
              /\ yielded' = [yielded EXCEPT ![i] = Append(@, step.item)]
              /\ stream' = [stream EXCEPT ![i] = Some(step.state)]
              /\ Consume(i, step.item, files)
    /\ UNCHANGED <<config, env, run, pb_len, admitted, request, calls, dirs, repolls>>

\* The sleep after a page elapsed: the loop polls the stream again.
SleepDone(i) ==
    /\ pc[i] = "sleep"
    /\ ~CanAdmit
    /\ StreamNext(i, unwrap(stream[i]), files)
    /\ UNCHANGED <<config, env, run, pb_len, admitted, request, replies, dirs, repolls>>

\* for_each_concurrent is done: no ticker is left and no future is held.
\* fetch_data then calls progress_bar.finish(), which in indicatif marks the
\* bar done and sets its position to its length (abandon() would keep it).
Finish ==
    /\ run = "running"
    /\ admitted = Len(config.tickers)
    /\ Active = {}
    /\ run' = "done"
    /\ pb_pos' = pb_len
    /\ UNCHANGED <<config, env, pb_len, admitted, pc, request, stream, calls,
                   replies, yielded, wrote, result, files, dirs, repolls>>

Next ==
    \/ Start
    \/ Admit
    \/ \E i \in Pipelines : MkdirDone(i)
    \/ \E i \in Pipelines : FetchDone(i)
    \/ \E i \in Pipelines : SleepDone(i)
    \/ Finish

Spec == Init /\ [][Next]_vars

\* Every pending operation returns and the executor polls the task.
FairSpec == Spec /\ WF_vars(Next)

(* ------------------- the stream under any consumer --------------------- *)

\* The stream of get_aggregates is a value of its own (a BoxStream); the loop
\* of save_aggregates_to_disk is its one consumer in the program and stops
\* polling at the first error. PollAfterEnd is a consumer that polls the
\* stream of a pipeline again after that loop was left, and drops the item.
\* Unfold panics when polled after it returned None.
PollAfterEnd(i) ==
    /\ pc[i] = "done"
    /\ is_some(stream[i])
    /\ repolls < MaxRepolls
    /\ repolls' = repolls + 1
    /\ LET st == unwrap(stream[i])
           b == closure_begin(st)
       IN  IF st.state = "Empty"
           THEN /\ yielded' = [yielded EXCEPT ![i] = Append(@, ItemPanic)]
                /\ UNCHANGED <<stream, calls, replies>>
           ELSE IF b.end
           THEN /\ yielded' = [yielded EXCEPT ![i] = Append(@, ItemEnd)]
                /\ stream' = [stream EXCEPT ![i] =
                                 Some(Unfold("Empty", st.request, st.next_url, st.final_page))]
                /\ UNCHANGED <<calls, replies>>
           ELSE /\ calls' = [calls EXCEPT ![i] = Append(@, b.request)]
                /\ IF get_aggregate_url(b.request).ok
                   THEN \E outcome \in Outcomes(Ticker(i), Len(PagesOf(replies[i])) + 1) :
                          LET step == closure_result(b.request, outcome)
                          IN  /\ replies' = [replies EXCEPT ![i] = Append(@, outcome)]
                              /\ yielded' = [yielded EXCEPT ![i] = Append(@, step.item)]
                              /\ stream' = [stream EXCEPT ![i] = Some(step.state)]
                   ELSE LET step == closure_result(b.request,
                                                   Failure(get_aggregate_url(b.request).err))
                        IN  /\ replies' = replies
                            /\ yielded' = [yielded EXCEPT ![i] = Append(@, step.item)]
                            /\ stream' = [stream EXCEPT ![i] = Some(step.state)]
    /\ UNCHANGED <<config, env, run, pb_len, pb_pos, admitted, pc, request, wrote, result,
                   files, dirs>>

\* One ticker, chains of up to MaxPages pages.
StreamScenarios ==
    {[config |-> Config(<<"A">>, "minute", 0, 2 * Day, DEFAULT_CHUNK_SIZE),
      env |-> Env(MaxPages, "any", FALSE)]}

StreamInit == Init /\ [config |-> config, env |-> env] \in StreamScenarios

StreamNext_ == Next \/ \E i \in Pipelines : PollAfterEnd(i)

StreamSpec == StreamInit /\ [][StreamNext_]_vars

(* ------------------------------ properties ----------------------------- *)

Last(seq) == seq[Len(seq)]

\* The pages pipeline i received, the records of each, and their rows.
Pages(i) == PagesOf(replies[i])
PageRecords(i) == [k \in 1..Len(Pages(i)) |-> Pages(i)[k].response.results]
PageRows(i) == [k \in 1..Len(Pages(i)) |-> Rows(Pages(i)[k].response.results)]
Continuation(i, k) == Pages(i)[k].response.next_url

\* The cursors of the calls pipeline i made of the fetcher.
Cursors(i) == [k \in 1..Len(calls[i]) |-> calls[i][k].next_url]

HasErr(i) == \E k \in 1..Len(yielded[i]) : yielded[i][k].kind = "Err"

\* C1: along a cursor chain P1(C1), .., Pn(none) without a fetch failure the
\* stream of a ticker yields the records of P1, .., Pn in that order and then
\* ends; the fetcher is called with the cursors none, C1, .., Cn-1, one call per
\* page, and never again after the page without continuation.
C1_PaginationFollowsChain ==
    \A i \in Pipelines :
        ~HasErr(i) =>
            LET n == Len(Pages(i))
                items == SelectSeq(yielded[i], LAMBDA it : it.kind # "End")
            IN  /\ Len(replies[i]) = n
                /\ items = [k \in 1..n |-> ItemOk(PageRecords(i)[k])]
                /\ Cursors(i) = [k \in 1..Len(calls[i]) |->
                                    IF k = 1 THEN None ELSE Continuation(i, k - 1)]
                /\ Len(calls[i]) = IF pc[i] = "get_aggregate" THEN n + 1 ELSE n
                /\ \A k \in 1..n : is_none(Continuation(i, k)) => Len(calls[i]) = k
                /\ \A k \in 1..Len(yielded[i]) :
                      yielded[i][k].kind = "End" =>
                          /\ k = Len(yielded[i])
                          /\ k = n + 1
                          /\ is_none(Continuation(i, n))
                          /\ result[i] = "Ok"
                /\ result[i] = "Ok" =>
                      /\ n >= 1
                      /\ Last(yielded[i]) = ItemEnd
                      /\ \A k \in 1..(n - 1) : is_some(Continuation(i, k))

\* A pipeline drained a chain of three pages to its end.
C1_Witness ==
    \E i \in Pipelines :
        /\ result[i] = "Ok"
        /\ Len(Pages(i)) = 3
        /\ Len(calls[i]) = 3
        /\ is_some(calls[i][3].next_url)

\* C2: when the fetch of page k fails, the pipeline observed the records of
\* P1, .., Pk-1 and then the error, which is the last item; the fetcher was
\* called k times and is not called again; the pipeline has ended with that
\* error, and the rows it wrote are those of P1, .., Pk-1 and no others.
C2_FetchFailureStopsPipeline ==
    \A i \in Pipelines :
        \A k \in 1..Len(yielded[i]) :
            yielded[i][k].kind = "Err" =>
                /\ k = Len(yielded[i])
                /\ Len(calls[i]) = k
                /\ Len(Pages(i)) = k - 1
                /\ \A j \in 1..(k - 1) : yielded[i][j] = ItemOk(PageRecords(i)[j])
                /\ wrote[i] = Concat(PageRows(i))
                /\ pc[i] = "done"
                /\ result[i] = yielded[i][k].err

\* The run is over and a pipeline failed on its second fetch, after it wrote
\* the rows of the first page.
C2_Witness ==
    /\ run = "done"
    /\ \E i \in Pipelines :
          /\ Len(yielded[i]) = 2
          /\ yielded[i][2].kind = "Err"
          /\ wrote[i] # <<>>
          /\ Len(calls[i]) = 2

\* The calls of the fetcher behind the first k items of pipeline i: one for
\* each page and each error.
CallIndex(i, k) == Cardinality({m \in 1..k : yielded[i][m].kind \in {"Ok", "Err"}})
PageIndex(i, k) == Cardinality({m \in 1..k : yielded[i][m].kind = "Ok"})

C4_ConcurrencyCeiling == Cardinality(Active) <= 10

\* Ten pipelines are active, one of them admitted after an earlier one ended.
C4_Witness ==
    /\ Cardinality(Active) = 10
    /\ admitted > 10
    /\ \E i \in Pipelines : pc[i] = "done"

\* What belongs to pipeline j alone.
PipeState(j) ==
    <<pc[j], request[j], stream[j], calls[j], replies[j], yielded[j], wrote[j], result[j]>>

Failed(i) == pc[i] = "done" /\ result[i] \notin {"Ok", "none"}

Occurrences(t) == Cardinality({i \in Pipelines : Ticker(i) = t})

\* The rows the file of pipeline i held before the run.
InitialRows == IF env.pre THEN <<OldRow>> ELSE <<>>

\* C5: a fetch error or file error of one pipeline stops that pipeline only.
\* The step in which a pipeline fails changes nothing of a pipeline with
\* another ticker, nor its file; and what a pipeline does is decided by its own
\* replies and file outcomes: it ends only with a result of its own, its calls
\* follow the continuations it received, the rows it wrote are those of its
\* pages (all of them when it ends with Ok), and the file of a ticker listed
\* once holds exactly those rows after the rows it had.
C5_FailureIsolation ==
    /\ [](\A j \in Pipelines :
            /\ pc[j] = "done" => result[j] # "none"
            /\ pc[j] # "done" => result[j] = "none"
            /\ Cursors(j) = [k \in 1..Len(calls[j]) |->
                                IF k = 1 THEN None ELSE Continuation(j, k - 1)]
            /\ IsPrefix(wrote[j], Concat(PageRows(j)))
            /\ result[j] = "Ok" => wrote[j] = Concat(PageRows(j))
            /\ Occurrences(Ticker(j)) = 1 =>
                  files[Path(j)].rows = InitialRows \o wrote[j])
    /\ [][\A i \in Pipelines :
            (~Failed(i) /\ Failed(i)') =>
                \A j \in Pipelines :
                    Ticker(j) # Ticker(i) =>
                        /\ PipeState(j)' = PipeState(j)
                        /\ files'[Path(j)] = files[Path(j)]]_vars

\* One pipeline failed on a fetch, and a pipeline with another ticker, which
\* was still fetching pages after that, ended with Ok and its rows on file.
C5_Witness ==
    \E i, j \in Pipelines :
        /\ Ticker(i) # Ticker(j)
        /\ Failed(i)
        /\ result[i] \in FetchErrors
        /\ result[j] = "Ok"
        /\ Len(calls[j]) > Len(calls[i])
        /\ files[Path(j)].rows = InitialRows \o Concat(PageRows(j))
        /\ Len(wrote[j]) > PageSize

\* C6: under fair scheduling the run completes, every pipeline having been
\* started and having finished.
C6_RunCompletes ==
    <>(run = "done" /\ \A i \in Pipelines : pc[i] = "done")

\* What does hold under FairSpec: a run whose prologue did not panic completes,
\* with every pipeline started and finished.
RunCompletesOnceRunning ==
    (run = "running") ~> (run = "done" /\ \A i \in Pipelines : pc[i] = "done")

\* The parameters build is to reject for the ticker of pipeline i.
InvalidParameters(i) ==
    Ticker(i) = "" \/ config.to < config.from \/ config.limit = 0

\* C7: build returns an error exactly when the ticker is empty, the range is
\* inverted or the limit is 0, and a request otherwise.
C7_BuildValidates ==
    \A i \in 1..admitted : is_none(request[i]) <=> InvalidParameters(i)

\* C8: the run never aborts, and a ticker whose request is invalid is
\* skipped: no fetch is called for it and no file is made for it.
C8_RunSkipsInvalid ==
    /\ run # "panicked"
    /\ \A i \in Pipelines :
          InvalidParameters(i) =>
              /\ calls[i] = <<>>
              /\ files[Path(i)].exists = env.pre

\* The rows appended to a file during the run.
Appended(path) ==
    SubSeq(files[path].rows, Len(InitialRows) + 1, Len(files[path].rows))

\* C9: the rows appended to a ticker's file are a prefix of the rows of the
\* pages received along that ticker's cursor chain, in order: none reordered,
\* duplicated or dropped. (For a ticker listed more than once, the chain of
\* any one of its pipelines will do.)
C9_FileFollowsChain ==
    \A t \in Range(config.tickers) :
        \E i \in Pipelines :
            /\ Ticker(i) = t
            /\ IsPrefix(Appended(Path(i)), Concat(PageRows(i)))

\* C10: no two pipelines that are active at the same time have the same
\* output file open.
C10_NoSharedPath ==
    \A i, j \in Pipelines :
        (i # j /\ pc[i] \in {"get_aggregate", "sleep"} /\ pc[j] \in {"get_aggregate", "sleep"})
            => Path(i) # Path(j)

\* C11: persistence is append-only. The rows a ticker's file held before the
\* run stay, unchanged, at the head of the file at every later point; no step
\* removes or rewrites a row or a file; and the file of a ticker listed once
\* holds the earlier rows followed by the rows this run wrote for the ticker.
C11_AppendOnly ==
    /\ [](\A p \in DOMAIN files :
            /\ IsPrefix(InitialRows, files[p].rows)
            /\ env.pre => files[p].exists
            /\ \A j \in Pipelines :
                  (Path(j) = p /\ Occurrences(Ticker(j)) = 1) =>
                      files[p].rows = InitialRows \o wrote[j])
    /\ [][\A p \in DOMAIN files :
            /\ IsPrefix(files[p].rows, files'[p].rows)
            /\ files[p].exists => files'[p].exists]_vars

\* A run over a file that held a row already ended with Ok, and the file
\* holds that row followed by the rows of the pages of this run.
C11_Witness ==
    /\ env.pre
    /\ run = "done"
    /\ \E i \in Pipelines :
          /\ result[i] = "Ok"
          /\ Len(wrote[i]) >= PageSize
          /\ files[Path(i)].rows = <<OldRow>> \o wrote[i]

\* The fetches of pipeline i that were issued and have not returned.
InFlight(i) == Len(calls[i]) - CallIndex(i, Len(yielded[i]))

\* C12: the steps of a pipeline are strictly ordered. A pipeline has at most
\* one fetch in flight; and the step that issues the fetch for page N+1 finds
\* no fetch in flight, the pipeline at the end of its delay after page N, every
\* row of pages 1..N written by it (and, for a ticker listed once, on file),
\* and issues the fetch with the continuation of page N.
C12_StrictOrder ==
    /\ [](\A i \in Pipelines :
            /\ InFlight(i) \in {0, 1}
            /\ InFlight(i) = 1 <=> pc[i] = "get_aggregate")
    /\ [][\A i \in Pipelines :
            Len(calls'[i]) > Len(calls[i]) =>
                /\ Len(calls'[i]) = Len(calls[i]) + 1
                /\ InFlight(i) = 0
                /\ Len(calls[i]) >= 1 =>
                      /\ pc[i] = "sleep"
                      /\ Len(Pages(i)) = Len(calls[i])
                      /\ wrote[i] = Concat(PageRows(i))
                      /\ Occurrences(Ticker(i)) = 1 =>
                            files[Path(i)].rows = InitialRows \o Concat(PageRows(i))
                      /\ Last(calls'[i]).next_url = Continuation(i, Len(calls[i]))]_vars

\* The third fetch of a pipeline is in flight, the rows of its first two
\* pages, neither of them empty, on file.
C12_Witness ==
    \E i \in Pipelines :
        /\ pc[i] = "get_aggregate"
        /\ Len(calls[i]) = 3
        /\ Len(wrote[i]) = 2 * PageSize
        /\ files[Path(i)].rows = InitialRows \o wrote[i]

\* The pages pipeline i fetched and persisted: the pages it received, less the
\* one whose rows it failed to write.
WriteErrors == {"Csv", "FileWrite"}
Persisted(i) == Len(Pages(i)) - (IF result[i] \in WriteErrors THEN 1 ELSE 0)

RECURSIVE TotalPersisted(_)
TotalPersisted(n) == IF n = 0 THEN 0 ELSE Persisted(n) + TotalPersisted(n - 1)

\* C13, as claimed: the progress counter counts the pages fetched and
\* persisted, one increment for each and none for a page whose fetch or write
\* failed, at every point of the run and at its end.
C13_CounterCountsPersisted ==
    pb_pos = TotalPersisted(Len(config.tickers))

\* C13, amended: while the pipelines run, and when the last of them has ended,
\* the counter equals the number of pages fetched and persisted over all
\* pipelines (no increment lost, none for a failed page); finishing the
\* progress bar at the end of fetch_data then sets the counter to the target
\* total, whatever was persisted.
C13_CounterUntilFinish ==
    /\ run # "done" => pb_pos = TotalPersisted(Len(config.tickers))
    /\ run = "done" => pb_pos = pb_len

\* Every pipeline has ended and the bar is not yet finished: one pipeline
\* failed to write its second page, another ended with Ok, and the counter
\* holds the pages of both but the failed one.
C13_Witness ==
    /\ run = "running"
    /\ \A i \in Pipelines : pc[i] = "done"
    /\ \E i, j \in Pipelines :
          /\ result[i] \in WriteErrors
          /\ Len(Pages(i)) = 2
          /\ result[j] = "Ok"
          /\ pb_pos = 1 + Len(Pages(j))
          /\ pb_pos # pb_len

\* The results of a pipeline that ended on a file error.
FileErrors == {"CreateFile"} \cup WriteErrors

\* C14: a file error halts the pipeline. A pipeline that failed to create its
\* directory or to open its file has issued no fetch and wrote nothing; a
\* pipeline that failed to write or flush page k has issued k fetches and has
\* ended; the step of the failure leaves the progress counter as it was, and
\* no step after it issues a fetch for the pipeline or changes its result.
C14_FileErrorHalts ==
    /\ [](\A i \in Pipelines :
            /\ result[i] = "CreateFile" =>
                  /\ pc[i] = "done"
                  /\ calls[i] = <<>>
                  /\ yielded[i] = <<>>
                  /\ wrote[i] = <<>>
            /\ result[i] \in WriteErrors =>
                  /\ pc[i] = "done"
                  /\ Len(calls[i]) = Len(Pages(i))
                  /\ Last(yielded[i]) = ItemOk(Last(PageRecords(i)))
                  /\ IsPrefix(wrote[i], Concat(PageRows(i))))
    /\ [][\A i \in Pipelines :
            /\ (result[i] \notin FileErrors /\ result'[i] \in FileErrors) =>
                  /\ pb_pos' = pb_pos
                  /\ calls'[i] = calls[i]
            /\ result[i] \in FileErrors =>
                  /\ calls'[i] = calls[i]
                  /\ result'[i] = result[i]
                  /\ pc'[i] = "done"]_vars

\* The run is over: one pipeline could not open its file and fetched nothing;
\* another failed to write its first page, which carried a continuation, and
\* fetched no second page.
C14_Witness ==
    /\ run = "done"
    /\ \E i, j \in Pipelines :
          /\ result[i] = "CreateFile"
          /\ calls[i] = <<>>
          /\ result[j] \in WriteErrors
          /\ Len(Pages(j)) = 1
          /\ is_some(Continuation(j, 1))
          /\ Len(calls[j]) = 1

\* C15: every fetch call of a pipeline carries the ticker, timespan, from, to
\* and limit of its first call, which are those of the config; only the cursor
\* differs, and for call N+1 it is the continuation of page N. The fetcher
\* leaves the request as it got it: the request the stream holds after a call
\* is the request of that call.
C15_RequestFrame ==
    \A i \in Pipelines :
        /\ \A k \in 1..Len(calls[i]) :
              calls[i][k] =
                  [ticker |-> Ticker(i), timespan |-> config.timespan,
                   from |-> config.from, to |-> config.to, limit |-> config.limit,
                   next_url |-> IF k = 1 THEN None ELSE Continuation(i, k - 1)]
        /\ calls[i] # <<>> => unwrap(stream[i]).request = Last(calls[i])
        /\ is_some(request[i]) =>
              request[i] = Some([ticker |-> Ticker(i), timespan |-> config.timespan,
                                 from |-> config.from, to |-> config.to,
                                 limit |-> config.limit, next_url |-> None])

\* A pipeline made three calls, the second and third with different cursors.
C15_Witness ==
    \E i \in Pipelines :
        /\ Len(calls[i]) = 3
        /\ is_none(calls[i][1].next_url)
        /\ is_some(calls[i][2].next_url)
        /\ is_some(calls[i][3].next_url)
        /\ calls[i][2].next_url # calls[i][3].next_url
        /\ calls[i][3].from # calls[i][3].to
        /\ Len(Pages(i)) = 3

\* Each reply of the server is classified by what came back: SendRequest iff
\* nothing did, UnexpectedStatus iff the status is 400 or more (whatever the
\* body), Deserialization iff the status is below 400 and the body is no page
\* envelope, and the page of the envelope otherwise.
Classified(r) ==
    /\ r.ok \/ r.err \in FetchErrors
    /\ (~r.ok /\ r.err = "SendRequest") <=> ~r.raw.sent
    /\ (~r.ok /\ r.err = "UnexpectedStatus") <=> (r.raw.sent /\ r.raw.status >= 400)
    /\ (~r.ok /\ r.err = "Deserialization") <=>
          (r.raw.sent /\ r.raw.status < 400 /\ is_none(r.raw.body.envelope))
    /\ r.ok <=> (r.raw.sent /\ r.raw.status < 400 /\ is_some(r.raw.body.envelope))
    /\ r.ok => r.response = unwrap(r.raw.body.envelope)

\* The errors the fetcher returned to pipeline i.
FetchErrs(i) ==
    {yielded[i][k].err : k \in {m \in 1..Len(yielded[i]) : yielded[i][m].kind = "Err"}}

\* C16, as claimed: every outcome of a fetch is a page, SendRequest,
\* UnexpectedStatus or Deserialization, classified as above, and the fetcher
\* returns no other kind of error, with or without a cursor in the request.
C16_ThreeFetchErrors ==
    \A i \in Pipelines :
        /\ \A k \in 1..Len(replies[i]) : Classified(replies[i][k])
        /\ FetchErrs(i) \subseteq FetchErrors

\* C16, amended: the responses are classified as claimed, and there is a
\* fourth kind of error, InvalidUrl: the fetcher returns it, without sending
\* anything, exactly when the cursor of the request does not parse as a URL;
\* a request without a cursor never gets it.
C16_FourFetchErrors ==
    \A i \in Pipelines :
        /\ \A k \in 1..Len(replies[i]) : Classified(replies[i][k])
        /\ FetchErrs(i) \subseteq FetchErrors \cup {"InvalidUrl"}
        /\ \A k \in 1..Len(calls[i]) :
              LET sent == is_none(calls[i][k].next_url) \/ unwrap(calls[i][k].next_url).valid
              IN  /\ sent => (k <= Len(replies[i]) \/ (k = Len(calls[i]) /\ pc[i] = "get_aggregate"))
                  /\ ~sent => /\ k = Len(calls[i])
                              /\ Len(replies[i]) = k - 1
                              /\ Last(yielded[i]) = ItemErr("InvalidUrl")
                              /\ result[i] = "InvalidUrl"
        /\ "InvalidUrl" \in FetchErrs(i) =>
              /\ is_some(Last(calls[i]).next_url)
              /\ ~unwrap(Last(calls[i]).next_url).valid

\* A pipeline got a page whose continuation is no URL and its second fetch
\* returned InvalidUrl with nothing sent; another got an error status with an
\* envelope in the body.
C16_Witness ==
    \E i, j \in Pipelines :
        /\ result[i] = "InvalidUrl"
        /\ Len(calls[i]) = 2
        /\ Len(replies[i]) = 1
        /\ result[j] = "UnexpectedStatus"
        /\ is_some(Last(replies[j]).raw.body.envelope)

\* The whole intervals of a timespan in d seconds, d >= 0, as the estimate
\* counts them: weeks by 4 for a month, weeks by 12 for a quarter (and days by
\* 365 for a year).
WholeIntervals(timespan, d) ==
    CASE timespan = "second" -> d
      [] timespan = "minute" -> d \div 60
      [] timespan = "hour" -> d \div 3600
      [] timespan = "day" -> d \div 86400
      [] timespan = "week" -> d \div 604800
      [] timespan = "month" -> (d \div 604800) \div 4
      [] timespan = "quarter" -> (d \div 604800) \div 12
      [] timespan = "year" -> (d \div 86400) \div 365

ValidRange == config.from <= config.to /\ config.limit > 0

\* C17: the target total of the progress counter is set once, before any
\* pipeline starts, and for from <= to and limit > 0 it is
\* (number of tickers) * floor(I / limit), I the whole intervals of the
\* timespan in to - from, which is not negative.
C17_TargetTotal ==
    /\ [](/\ run = "init" => (admitted = 0 /\ pb_len = 0)
          /\ (run \in {"running", "done"} /\ ValidRange) =>
                /\ pb_len = Len(config.tickers)
                               * (WholeIntervals(config.timespan, config.to - config.from)
                                    \div config.limit)
                /\ pb_len >= 0)
    /\ [][run # "init" => pb_len' = pb_len]_vars

\* Two pipelines run against a target of 2 * floor(57 weeks / 12 / 1) = 8
\* pages: quarters over 400 days with limit 1.
C17_Witness ==
    /\ config.timespan = "quarter"
    /\ config.to - config.from = 400 * Day
    /\ config.limit = 1
    /\ admitted = 2
    /\ pb_len = 8

\* Pipeline i receives an item in this step, and it is a page without records.
GetsEmptyPage(i) ==
    /\ Len(yielded'[i]) = Len(yielded[i]) + 1
    /\ Last(yielded'[i]) = ItemOk(<<>>)

\* C18: a page without records does not end the pipeline. The step that
\* receives it writes nothing to the file, adds one to the progress counter
\* and leaves the pipeline in its delay; from the delay after any page the
\* pipeline fetches the page's continuation if there is one and ends with Ok
\* if there is none; so a pipeline that ended after a fetch ended on a page
\* without continuation or on an error.
C18_EmptyPageGoesOn ==
    /\ [](\A i \in Pipelines :
            (pc[i] = "done" /\ calls[i] # <<>>) =>
                \/ result[i] \notin {"Ok", "none"}
                \/ /\ result[i] = "Ok"
                   /\ Len(Pages(i)) = Len(calls[i])
                   /\ is_none(Continuation(i, Len(Pages(i)))))
    /\ [][\A i \in Pipelines :
            /\ GetsEmptyPage(i) =>
                  /\ wrote'[i] = wrote[i]
                  /\ files' = files
                  /\ pb_pos' = pb_pos + 1
                  /\ pc'[i] = "sleep"
                  /\ result'[i] = "none"
            /\ (pc[i] = "sleep" /\ pc'[i] # "sleep") =>
                  LET c == Continuation(i, Len(Pages(i)))
                  IN  IF is_some(c)
                      THEN calls'[i] = Append(calls[i], [Last(calls[i]) EXCEPT !.next_url = c])
                      ELSE /\ calls'[i] = calls[i]
                           /\ pc'[i] = "done"
                           /\ result'[i] = "Ok"]_vars

\* A pipeline ended with Ok after three pages, the second without records:
\* the rows of the first and third are on file and the counter stands at 3.
C18_Witness ==
    /\ run = "running"
    /\ \E i \in Pipelines :
          /\ result[i] = "Ok"
          /\ Len(Pages(i)) = 3
          /\ PageRecords(i)[1] # <<>>
          /\ PageRecords(i)[2] = <<>>
          /\ PageRecords(i)[3] # <<>>
          /\ wrote[i] = PageRows(i)[1] \o PageRows(i)[3]
          /\ files[Path(i)].rows = InitialRows \o wrote[i]
          /\ pb_pos = 3

\* C19: the directory and the file of a pipeline exist from its first fetch
\* on, so a pipeline whose first fetch failed leaves the file in place; for a
\* ticker listed once the file then holds what it held before the run: nothing
\* if the run created it.
C19_FileBeforeFirstFetch ==
    /\ [](\A i \in Pipelines :
            /\ calls[i] # <<>> =>
                  /\ parent(Path(i)) \in dirs
                  /\ files[Path(i)].exists
            /\ (Len(calls[i]) = 1 /\ result[i] \in FetchErrors) =>
                  /\ files[Path(i)].exists
                  /\ wrote[i] = <<>>
                  /\ Occurrences(Ticker(i)) = 1 => files[Path(i)].rows = InitialRows)
    /\ [][\A i \in Pipelines :
            (calls[i] = <<>> /\ calls'[i] # <<>>) =>
                /\ pc[i] = "create_dir_all"
                /\ files'[Path(i)].rows = files[Path(i)].rows]_vars

\* The run is over; the first fetch of a pipeline failed, and the file, which
\* did not exist before the run, is there and empty.
C19_Witness ==
    /\ run = "done"
    /\ ~env.pre
    /\ \E i \in Pipelines :
          /\ Len(calls[i]) = 1
          /\ result[i] \in FetchErrors
          /\ files[Path(i)] = [exists |-> TRUE, rows |-> <<>>]
          /\ parent(Path(i)) \in dirs

====
